---- MODULE Spec2Model ----
(***************************************************************************)
(* A model of three utilities of suputils:                                 *)
(*   bsq   (src/src/bin/bsq.rs)   binary search over a sorted, mmap-ed     *)
(*                                text database, then a forward scan that  *)
(*                                prints the matching records;             *)
(*   topk  (src/src/bin/topk.rs)  the TopK / BottomK bounded containers;   *)
(*   group (src/src/bin/group.rs) grouping of sorted (key, token) lines.   *)
(* Offsets are 0-based as in the Rust code: byte i of a buffer s is        *)
(* s[i + 1] here, and the Rust slice s[a..b] is Slice(s, a, b).            *)
(***************************************************************************)
EXTENDS Integers, Sequences, FiniteSets, TLC

VARIABLES
    \* ---- bsq ----
    args,       \* the command line: delimiter, exact_match, index_field, query
    stdin,      \* the bytes waiting on standard input
    pc,         \* where main is
    opt,        \* the ProgramOption parse_arguments built (key_idx, match_type)
    mmap,       \* the bytes of the mapped database file, <<>> until mapped
    opened,     \* whether the database file has been opened
    queries,    \* the queries still to run (one, or the lines iterator)
    query,      \* the query being run
    lb, ub,     \* lower_bound's loop variables
    start,      \* the offset lower_bound returned
    written,    \* the bytes print_matches wrote for the current query
    out,        \* everything written to the output sink
    diag,       \* main's messages on the diagnostic stream
    exit_code,  \* the process's exit status, None while it runs
    fault,      \* why the process panicked, "none" if it did not
    executed,   \* the queries run so far, in order
    \* ---- topk ----
    sel,        \* the container: kind, capacity, heap (as a sequence)
    pushed,     \* the values pushed so far
    \* ---- group ----
    g           \* group's state: input, position, prev_key, tokens, output

bsq_vars == <<args, stdin, pc, opt, mmap, opened, queries, query, lb, ub,
              start, written, out, diag, exit_code, fault, executed>>
vars == <<bsq_vars, sel, pushed, g>>

----------------------------------------------------------------------------
(* Bytes *)

NL == 10
SP == 32
ByteA == 97
ByteB == 98

\* Option::None of an Option<usize>
None == -1

\* bounds of the model
MaxLen == 5
MaxQuery == 2

Min(S) == CHOOSE x \in S : \A y \in S : x <= y
Max(S) == CHOOSE x \in S : \A y \in S : x >= y

\* the Rust slice s[a..b]
Slice(s, a, b) == SubSeq(s, a + 1, b)

\* s[a..b].iter().position(|&x| x == item)
Position(s, a, b, item) ==
    LET hits == {i \in a..(b - 1) : s[i + 1] = item}
    IN  IF hits = {} THEN None ELSE Min(hits) - a

\* s[0..mid].iter().rev().position(|&x| x == item)
RevPosition(s, mid, item) ==
    LET hits == {i \in 0..(mid - 1) : s[i + 1] = item}
    IN  IF hits = {} THEN None ELSE (mid - 1) - Max(hits)

\* the loop of nth_pos: `left` calls of position remain, the iterator stands
\* at offset `cur` of s[..b], `result` is the sum so far
RECURSIVE nth_pos_loop(_, _, _, _, _, _)
nth_pos_loop(s, cur, b, item, left, result) ==
    IF left = 0 THEN result
    ELSE LET p == Position(s, cur, b, item)
         IN  IF p = None THEN None
             ELSE nth_pos_loop(s, cur + p + 1, b, item, left - 1, result + p)

\* nth_pos(s[a..b].iter(), &item, n) for n >= 1 (it is never called with n = 0)
nth_pos(s, a, b, item, n) ==
    LET r == nth_pos_loop(s, a, b, item, n, 0)
    IN  IF r = None THEN None ELSE r + n - 1

\* <[u8] as Ord>::cmp: -1 Less, 0 Equal, 1 Greater
Cmp(x, y) ==
    LET n == IF Len(x) < Len(y) THEN Len(x) ELSE Len(y)
        diff == {i \in 1..n : x[i] # y[i]}
    IN  IF diff # {}
        THEN (IF x[Min(diff)] < y[Min(diff)] THEN -1 ELSE 1)
        ELSE IF Len(x) < Len(y) THEN -1
        ELSE IF Len(x) > Len(y) THEN 1 ELSE 0

\* <[u8]>::starts_with
starts_with(s, prefix) ==
    /\ Len(prefix) <= Len(s)
    /\ SubSeq(s, 1, Len(prefix)) = prefix

\* BufRead::lines(): the lines of a byte stream, without their terminators
\* (a final line needs none, and a final terminator opens no empty line)
RECURSIVE Lines(_)
Lines(s) ==
    IF s = <<>> THEN <<>>
    ELSE LET p == Position(s, 0, Len(s), NL)
         IN  IF p = None THEN <<s>>
             ELSE <<Slice(s, 0, p)>> \o Lines(Slice(s, p + 1, Len(s)))

----------------------------------------------------------------------------
(* bsq: parse_arguments *)

ExactMatch == "ExactMatch"
PrefixMatch == "PrefixMatch"

\* parse_arguments with index field 0 taken for the first field
parse_arguments_clamped(a) ==
    [ok |-> TRUE,
     key_idx |-> IF a.index_field = 0 THEN 0 ELSE a.index_field - 1,
     match_type |-> IF a.exact_match THEN ExactMatch ELSE PrefixMatch,
     delim |-> a.delimiter,
     query |-> a.query]

\* line 67-83
parse_arguments(a) ==
    IF a.index_field = 0
    THEN [ok |-> FALSE, msg |-> "index field must be positive"]
    ELSE [ok |-> TRUE,
          key_idx |-> a.index_field - 1,
          match_type |-> IF a.exact_match THEN ExactMatch ELSE PrefixMatch,
          delim |-> a.delimiter,
          query |-> a.query]

----------------------------------------------------------------------------
(* bsq: lower_bound, one iteration of its loop at a time *)

\* probe_start with the byte at mid searched too
probe_start_inclusive(db, mid) ==
    LET m == IF mid < Len(db) THEN mid + 1 ELSE mid
        p == RevPosition(db, m, NL)
    IN  IF p = None THEN 0 ELSE m - p

\* line 105-108: the start of the record the probe falls in
probe_start(db, mid) ==
    LET p == RevPosition(db, mid, NL)
    IN  IF p = None THEN 0 ELSE mid - p

\* line 109-112: its end
probe_end(db, s, u) ==
    LET p == Position(db, s, Len(db), NL)
    IN  IF p = None THEN u ELSE s + p

\* line 115-121
lb_key_start(db, s, e, delim, key_idx) ==
    IF key_idx = 0 THEN s
    ELSE LET p == nth_pos(db, s, e, delim, key_idx)
         IN  IF p = None THEN e ELSE s + p + 1

\* line 123-126
lb_key_end(db, ks, e, delim) ==
    LET p == Position(db, ks, e, delim)
    IN  IF p = None THEN e ELSE ks + p

\* One iteration of the loop of lower_bound from the loop state (l, u):
\* kind "return" with the value returned, "loop" with the next loop state, or
\* "panic" when a slice's bounds are out of order.
lower_bound_step(key, db, delim, key_idx, l, u) ==
    LET mid == (l + u) \div 2
        s == probe_start(db, mid)
        e == probe_end(db, s, u)
        ks == lb_key_start(db, s, e, delim, key_idx)
        ke == lb_key_end(db, ks, e, delim)
        ord == Cmp(key, Slice(db, ks, ke))
        less_eq == ord <= 0
        l2 == IF less_eq THEN l ELSE e
        u2 == IF less_eq THEN s - 1 ELSE u
    IN  IF mid > Len(db) \/ s > e \/ e > Len(db)
        THEN [kind |-> "panic", lb |-> l, ub |-> u, value |-> 0]
        ELSE IF less_eq /\ s = 0
        THEN [kind |-> "return", lb |-> l, ub |-> u, value |-> 0]
        ELSE IF l2 >= u2
        THEN [kind |-> "return", lb |-> l2, ub |-> u2, value |-> u2 + 1]
        ELSE [kind |-> "loop", lb |-> l2, ub |-> u2, value |-> 0]

----------------------------------------------------------------------------
(* bsq: get_match_range and print_matches *)

\* Some((start, end)) is [panic |-> FALSE, some |-> TRUE, end |-> end],
\* None is some = FALSE, a slice out of range is panic = TRUE
gmr_none == [panic |-> FALSE, some |-> FALSE, end |-> 0]
gmr_panic == [panic |-> TRUE, some |-> FALSE, end |-> 0]

\* is_match with the exact test taking Less for a match, as lower_bound does
is_match_less_or_equal(query_, key, match_type) ==
    IF match_type = ExactMatch THEN Cmp(query_, key) <= 0
    ELSE starts_with(key, query_)

\* line 208-211
is_match(query_, key, match_type) ==
    IF match_type = ExactMatch THEN Cmp(query_, key) = 0
    ELSE starts_with(key, query_)

\* line 195-203: where get_match_range has the key begin, None when it
\* returns None for want of delimiters
gmr_key_start(db, start_, delim, key_idx) ==
    IF key_idx = 0 THEN start_
    ELSE LET p == nth_pos(db, start_, Len(db), delim, key_idx)
         IN  IF p = None THEN None ELSE start_ + p + 1

\* line 204-207: where it has the key end
gmr_key_end(db, key_start, delim) ==
    LET q == Position(db, key_start, Len(db), delim)
    IN  IF q = None THEN Len(db) ELSE key_start + q

\* line 186-222
get_match_range(db, start_, query_, key_idx, delim, match_type) ==
    LET end == Len(db)
        key_start == gmr_key_start(db, start_, delim, key_idx)
        key_end == gmr_key_end(db, key_start, delim)
        r == Position(db, key_end + 1, end, NL)
    IN  IF start_ > end THEN gmr_panic
        ELSE IF key_start = None THEN gmr_none
        ELSE IF ~is_match(query_, Slice(db, key_start, key_end), match_type)
        THEN gmr_none
        ELSE IF key_end + 1 > end THEN gmr_panic
        ELSE [panic |-> FALSE, some |-> TRUE,
              end |-> IF r = None THEN end ELSE key_end + r + 2]

\* the while loop of print_matches: `first` is the next record to test,
\* `last` the end of the last record matched (None when there is none yet);
\* the value is the final `last`, or panic
RECURSIVE print_loop(_, _, _, _, _, _, _)
print_loop(db, first, last, query_, key_idx, delim, match_type) ==
    LET m == get_match_range(db, first, query_, key_idx, delim, match_type)
    IN  IF m.panic THEN [panic |-> TRUE, last |-> None]
        ELSE IF ~m.some THEN [panic |-> FALSE, last |-> last]
        ELSE print_loop(db, m.end, m.end, query_, key_idx, delim, match_type)

\* print_matches: the bytes it writes, or panic
print_matches(db, start_, query_, key_idx, delim, match_type) ==
    LET r == print_loop(db, start_, None, query_, key_idx, delim, match_type)
    IN  IF r.panic THEN [panic |-> TRUE, bytes |-> <<>>]
        ELSE IF r.last = None THEN [panic |-> FALSE, bytes |-> <<>>]
        ELSE [panic |-> FALSE, bytes |-> Slice(db, start_, r.last)]

----------------------------------------------------------------------------
(* The records of a database and their keys *)

\* where the records of db start: offset 0 and the offset after each
\* separator, as long as a byte follows (a final separator opens no record)
RecordStarts(db) ==
    {s \in 0..(Len(db) - 1) : s = 0 \/ db[s] = NL}

\* where the record that starts at s ends: its separator, or the buffer's end
RecordEnd(db, s) == probe_end(db, s, Len(db))

\* the key field of the record that starts at s, as lower_bound reads it
RecordKey(db, s, delim, key_idx) ==
    LET e == RecordEnd(db, s)
        ks == lb_key_start(db, s, e, delim, key_idx)
    IN  Slice(db, ks, lb_key_end(db, ks, e, delim))

\* "The database must be sorted by the index"
Sorted(db, delim, key_idx) ==
    \A s, t \in RecordStarts(db) :
        s < t => Cmp(RecordKey(db, s, delim, key_idx),
                     RecordKey(db, t, delim, key_idx)) <= 0

----------------------------------------------------------------------------
(* bsq: the inputs *)

RECURSIVE SeqsUpTo(_, _)
SeqsUpTo(S, n) ==
    IF n = 0 THEN {<<>>}
    ELSE LET shorter == SeqsUpTo(S, n - 1)
         IN  shorter \cup {Append(x, b) : x \in shorter, b \in S}

\* the bytes of database files: a separator, a delimiter, two letters
Alphabet == {NL, SP, ByteA, ByteB}
Files == SeqsUpTo(Alphabet, MaxLen)
\* a query given on the command line
QueryArgs == SeqsUpTo({ByteA, ByteB}, MaxQuery)
\* what may wait on standard input when no query is given
Stdins == {<<>>, <<ByteA>>, <<ByteB, NL>>}
\* -f: 0 is rejected, 1 and 2 are the first and second field
IndexFields == {0, 1, 2}

NoQuery == [some |-> FALSE, val |-> <<>>]
SomeQuery(q) == [some |-> TRUE, val |-> q]

BsqArgs ==
    {[delimiter |-> SP, exact_match |-> w, index_field |-> f, query |-> q] :
        w \in BOOLEAN, f \in IndexFields,
        q \in {NoQuery} \cup {SomeQuery(x) : x \in QueryArgs}}

TopKIdle == sel = [state |-> "idle"] /\ pushed = <<>>
GroupIdle == g = [state |-> "idle"]

Init ==
    /\ args \in BsqArgs
    /\ stdin \in (IF args.query.some THEN {<<>>} ELSE Stdins)
    /\ pc = "main"
    /\ opt = [ok |-> FALSE]
    /\ mmap = <<>>
    /\ opened = FALSE
    /\ queries = <<>>
    /\ query = <<>>
    /\ lb = 0
    /\ ub = 0
    /\ start = 0
    /\ written = <<>>
    /\ out = <<>>
    /\ diag = <<>>
    /\ exit_code = None
    /\ fault = "none"
    /\ executed = <<>>
    /\ TopKIdle
    /\ GroupIdle

----------------------------------------------------------------------------
(* bsq: main *)

\* line 246-252: a configuration error is printed and main returns
ParseArguments ==
    /\ pc = "main"
    /\ LET r == parse_arguments(args)
       IN  IF r.ok
           THEN /\ opt' = r
                /\ pc' = "open"
                /\ UNCHANGED <<diag, exit_code>>
           ELSE /\ diag' = Append(diag, r.msg)
                /\ pc' = "exit"
                /\ exit_code' = 0
                /\ UNCHANGED opt
    /\ UNCHANGED <<args, stdin, mmap, opened, queries, query, lb, ub,
                   start, written, out, fault, executed,
                   sel, pushed, g>>

\* line 254-283: the database file (any sorted file) is opened and mapped,
\* the output is opened, and the queries are the one given or, without one,
\* the lines of the file main opens as its input: the database file again
OpenDatabase ==
    /\ pc = "open"
    /\ opened' = TRUE
    /\ \E f \in Files :
        /\ Sorted(f, opt.delim, opt.key_idx)
        /\ mmap' = f
        /\ queries' = IF opt.query.some THEN <<opt.query.val>> ELSE Lines(f)
    /\ pc' = "dispatch"
    /\ UNCHANGED <<args, stdin, opt, query, lb, ub, start, written, out,
                   diag, exit_code, fault, executed,
                   sel, pushed, g>>

\* line 254-261: File::open or the mapping fails and expect() panics
OpenFails ==
    /\ pc = "open"
    /\ pc' = "panic"
    /\ fault' = "io"
    /\ exit_code' = 101
    /\ UNCHANGED <<args, stdin, opt, mmap, opened, queries, query, lb,
                   ub, start, written, out, diag, executed,
                   sel, pushed, g>>

\* line 267-268, 283-285: the next query enters lower_bound; line 298: with
\* none left main returns
NextQuery ==
    /\ pc = "dispatch"
    /\ IF queries = <<>>
       THEN /\ pc' = "done"
            /\ exit_code' = 0
            /\ UNCHANGED <<queries, query, lb, ub, executed>>
       ELSE /\ query' = Head(queries)
            /\ queries' = Tail(queries)
            /\ executed' = Append(executed, Head(queries))
            /\ lb' = 0
            /\ ub' = Len(mmap)
            /\ pc' = "lower_bound"
            /\ UNCHANGED exit_code
    /\ UNCHANGED <<args, stdin, opt, mmap, opened, start, written, out,
                   diag, fault,
                   sel, pushed, g>>

\* line 103-150: one iteration of the loop of lower_bound
Probe ==
    /\ pc = "lower_bound"
    /\ LET r == lower_bound_step(query, mmap, opt.delim, opt.key_idx, lb, ub)
       IN  /\ lb' = r.lb
           /\ ub' = r.ub
           /\ start' = IF r.kind = "return" THEN r.value ELSE start
           /\ pc' = IF r.kind = "return" THEN "print_matches"
                    ELSE IF r.kind = "panic" THEN "panic" ELSE "lower_bound"
           /\ fault' = IF r.kind = "panic" THEN "slice" ELSE fault
           /\ exit_code' = IF r.kind = "panic" THEN 101 ELSE exit_code
    /\ UNCHANGED <<args, stdin, opt, mmap, opened, queries, query,
                   written, out, diag, executed,
                   sel, pushed, g>>

\* line 269-277, 286-294: print_matches for the offset lower_bound returned
PrintMatches ==
    /\ pc = "print_matches"
    /\ LET r == print_matches(mmap, start, query, opt.key_idx, opt.delim,
                              opt.match_type)
       IN  IF r.panic
           THEN /\ pc' = "panic"
                /\ fault' = "slice"
                /\ exit_code' = 101
                /\ UNCHANGED <<written, out>>
           ELSE /\ written' = r.bytes
                /\ out' = out \o r.bytes
                /\ pc' = "dispatch"
                /\ UNCHANGED <<fault, exit_code>>
    /\ UNCHANGED <<args, stdin, opt, mmap, opened, queries, query, lb,
                   ub, start, diag, executed,
                   sel, pushed, g>>

Next ==
    \/ ParseArguments
    \/ OpenDatabase
    \/ OpenFails
    \/ NextQuery
    \/ Probe
    \/ PrintMatches

Spec == Init /\ [][Next]_vars

----------------------------------------------------------------------------
(* bsq: what the claims speak of *)

\* lower_bound has just returned `start` for `query`
Returned == pc = "print_matches"

\* print_matches has just returned for `query`, having written `written`
Printed == pc = "dispatch" /\ executed # <<>>

Key(s) == RecordKey(mmap, s, opt.delim, opt.key_idx)

\* the records whose key is not less than the query
NotLess == {s \in RecordStarts(mmap) : Cmp(query, Key(s)) <= 0}

\* the match predicate of the active mode on a record's key field
Matches(s, match_type) ==
    IF match_type = ExactMatch THEN Key(s) = query
    ELSE starts_with(Key(s), query)

\* the end of the maximal run of consecutive matching records that starts
\* at the record at s: the start of the first record that does not match,
\* or the end of the buffer
RunEnd(s, match_type) ==
    LET stops == {t \in RecordStarts(mmap) : t >= s /\ ~Matches(t, match_type)}
    IN  IF stops = {} THEN Len(mmap) ELSE Min(stops)

\* the bytes of that run from the first record whose key is not less than
\* the query, separators included
MatchRun(match_type) ==
    IF NotLess = {} THEN <<>>
    ELSE Slice(mmap, Min(NotLess), RunEnd(Min(NotLess), match_type))

\* C1: on a sorted database the offset lower_bound returns is the start of
\* the first record whose key is not less than the query: every record
\* before it has a smaller key.
LowerBoundCorrect ==
    (Returned /\ NotLess # {}) => start = Min(NotLess)

\* C2: the bytes written for a query are exactly the maximal run of
\* consecutive matching records that starts at the lower bound, with their
\* separators: nothing that matches is skipped, nothing else is included.
OutputIsMatchRun ==
    Printed => written = MatchRun(opt.match_type)

\* C3: the loop of lower_bound terminates. Its body is a function of the
\* loop state (lb, ub) alone, so it terminates only if no iteration that
\* stays in the loop leaves (lb, ub) as it found them.
LowerBoundTerminates ==
    pc = "lower_bound" =>
        LET r == lower_bound_step(query, mmap, opt.delim, opt.key_idx, lb, ub)
        IN  r.kind = "loop" => <<r.lb, r.ub>> # <<lb, ub>>

\* C4: a query that no record of a non-empty database matches writes
\* nothing and ends normally.
SoftMiss ==
    (executed # <<>> /\ mmap # <<>>
        /\ \A s \in RecordStarts(mmap) : ~Matches(s, opt.match_type))
    => /\ fault # "slice"
       /\ Printed => written = <<>>

\* C5: on an empty database lower_bound returns 0, print_matches writes
\* nothing, and nothing crashes.
EmptyDatabase ==
    (opened /\ mmap = <<>>)
    => /\ Returned => start = 0
       /\ fault # "slice"
       /\ out = <<>>

\* C6: without a query argument the queries run are the lines of standard
\* input, in order.
BatchReadsStdin ==
    ~args.query.some =>
        /\ Len(executed) <= Len(Lines(stdin))
        /\ executed = SubSeq(Lines(stdin), 1, Len(executed))
        /\ pc = "done" => executed = Lines(stdin)

\* C7: from the same lower bound, when both modes run to completion, what
\* Prefix mode writes begins with what Exact mode writes.
PrefixContainsExact ==
    Returned =>
        LET e == print_matches(mmap, start, query, opt.key_idx, opt.delim,
                               ExactMatch)
            p == print_matches(mmap, start, query, opt.key_idx, opt.delim,
                               PrefixMatch)
        IN  (~e.panic /\ ~p.panic) => starts_with(p.bytes, e.bytes)

\* C7's case: both modes complete and Exact mode writes a record
PrefixContainsExactWitness ==
    /\ Returned
    /\ LET e == print_matches(mmap, start, query, opt.key_idx, opt.delim,
                              ExactMatch)
           p == print_matches(mmap, start, query, opt.key_idx, opt.delim,
                              PrefixMatch)
       IN  ~e.panic /\ ~p.panic /\ e.bytes # <<>>

\* what C8 has in common with the code: the error is reported once, the
\* database is never opened, no query runs, nothing is written
ConfigErrorStops ==
    /\ pc = "exit"
    /\ diag = <<"index field must be positive">>
    /\ ~opened
    /\ executed = <<>>
    /\ out = <<>>

\* C8 as the spec states it: ... and the exit status is not 0.
ConfigErrorExitsNonZero ==
    (args.index_field = 0 /\ pc # "main")
        => ConfigErrorStops /\ exit_code # 0

\* C8 as the code has it: main returns after the message, so the exit
\* status is 0.
ConfigErrorExitsZero ==
    (args.index_field = 0 /\ pc # "main")
        => ConfigErrorStops /\ exit_code = 0

\* C8's case: index field 0 was given and main has returned after its message
ConfigErrorWitness ==
    args.index_field = 0 /\ pc = "exit" /\ Len(diag) = 1

----------------------------------------------------------------------------
(* topk: the TopK and BottomK containers *)

\* bounds of the model
MaxK == 2
MaxVal == 3
MaxPush == 4

Vals == 1..MaxVal

\* BinaryHeap::push on a heap held as the ascending sequence of its elements
RECURSIVE heap_push(_, _)
heap_push(h, x) ==
    IF h = <<>> THEN <<x>>
    ELSE IF x <= Head(h) THEN <<x>> \o h
    ELSE <<Head(h)>> \o heap_push(Tail(h), x)

\* BinaryHeap::<T>::with_capacity(k): the capacity the heap is given
with_capacity(k) == k

\* BottomK::push: a max heap, so peek and pop take the greatest element
bottomk_push(h, capacity, data) ==
    IF Len(h) = capacity
    THEN IF h[Len(h)] <= data THEN h
         ELSE heap_push(SubSeq(h, 1, Len(h) - 1), data)
    ELSE heap_push(h, data)

\* TopK::push with the eviction left out
topk_push_no_pop(h, capacity, data) ==
    IF Len(h) = capacity /\ h[1] >= data THEN h ELSE heap_push(h, data)

\* TopK::push: a heap of Reverse<T>, so peek and pop take the least element
topk_push(h, capacity, data) ==
    IF Len(h) = capacity
    THEN IF h[1] >= data THEN h
         ELSE heap_push(Tail(h), data)
    ELSE heap_push(h, data)

TopKInit ==
    /\ sel \in {[state |-> "new", kind |-> kd, k |-> k, capacity |-> 0,
                 heap |-> <<>>] : kd \in {"TopK", "BottomK"}, k \in 0..MaxK}
    /\ pushed = <<>>

\* TopK::new / BottomK::new: k = 0 panics
SelectNew ==
    /\ sel.state = "new"
    /\ sel' = IF sel.k = 0 THEN [sel EXCEPT !.state = "panic"]
              ELSE [sel EXCEPT !.state = "ready",
                               !.capacity = with_capacity(sel.k)]
    /\ UNCHANGED <<pushed, bsq_vars, g>>

TopKPush ==
    /\ sel.state = "ready"
    /\ sel.kind = "TopK"
    /\ Len(pushed) < MaxPush
    /\ \E data \in Vals :
        /\ sel' = [sel EXCEPT !.heap = topk_push(sel.heap, sel.capacity, data)]
        /\ pushed' = Append(pushed, data)
    /\ UNCHANGED <<bsq_vars, g>>

BottomKPush ==
    /\ sel.state = "ready"
    /\ sel.kind = "BottomK"
    /\ Len(pushed) < MaxPush
    /\ \E data \in Vals :
        /\ sel' = [sel EXCEPT
                      !.heap = bottomk_push(sel.heap, sel.capacity, data)]
        /\ pushed' = Append(pushed, data)
    /\ UNCHANGED <<bsq_vars, g>>

BsqIdle ==
    /\ args = [index_field |-> 1]
    /\ stdin = <<>>
    /\ pc = "idle"
    /\ opt = [ok |-> FALSE]
    /\ mmap = <<>>
    /\ opened = FALSE
    /\ queries = <<>>
    /\ query = <<>>
    /\ lb = 0
    /\ ub = 0
    /\ start = 0
    /\ written = <<>>
    /\ out = <<>>
    /\ diag = <<>>
    /\ exit_code = None
    /\ fault = "none"
    /\ executed = <<>>

InitTopK == BsqIdle /\ TopKInit /\ GroupIdle

NextTopK ==
    \/ SelectNew
    \/ TopKPush
    \/ BottomKPush

SpecTopK == InitTopK /\ [][NextTopK]_vars

\* how often v is among the elements of the sequence s
Count(s, v) == Cardinality({i \in DOMAIN s : s[i] = v})

\* how often v is among the k greatest (least) of the values pushed
InKGreatest(v) ==
    LET above == Cardinality({i \in DOMAIN pushed : pushed[i] > v})
        room == IF sel.k > above THEN sel.k - above ELSE 0
    IN  IF Count(pushed, v) < room THEN Count(pushed, v) ELSE room

InKLeast(v) ==
    LET below == Cardinality({i \in DOMAIN pushed : pushed[i] < v})
        room == IF sel.k > below THEN sel.k - below ELSE 0
    IN  IF Count(pushed, v) < room THEN Count(pushed, v) ELSE room

\* C9: after n pushes a container made with k >= 1 holds min(n, k)
\* elements, never more than k, and they are the k greatest (TopK) or the
\* k least (BottomK) of the values pushed, as a multiset.
BoundedSelection ==
    sel.state = "ready" =>
        /\ Len(sel.heap) = (IF Len(pushed) < sel.k THEN Len(pushed) ELSE sel.k)
        /\ Len(sel.heap) <= sel.k
        /\ \A v \in Vals :
             Count(sel.heap, v) = (IF sel.kind = "TopK" THEN InKGreatest(v)
                                   ELSE InKLeast(v))

\* C9's case: a full TopK container has taken a new greatest value and
\* dropped one it held
BoundedSelectionWitness ==
    /\ sel.state = "ready"
    /\ sel.kind = "TopK"
    /\ Len(pushed) > sel.k
    /\ Count(pushed, pushed[Len(pushed)]) = 1
    /\ Count(sel.heap, pushed[Len(pushed)]) = 1

----------------------------------------------------------------------------
(* group: grouping of input sorted by the first field *)

\* bound of the model
MaxLines == 3

\* a line is the sequence of its fields, as line.split(field_delim) yields
GroupKeys == {1, 2}
GroupTokens == {ByteA, ByteB}
GroupLines ==
    {<<k>> : k \in GroupKeys} \cup
    {<<k, t>> : k \in GroupKeys, t \in GroupTokens}

\* "it assumes the input is sorted by the first field"
GroupInputs ==
    {in \in SeqsUpTo(GroupLines, MaxLines) :
        \A i, j \in DOMAIN in : i < j => in[i][1] <= in[j][1]}

\* line.split(field_delim).take(2).collect()
take2(line) == SubSeq(line, 1, IF Len(line) < 2 THEN Len(line) ELSE 2)

\* Vec::sort
RECURSIVE sort(_)
sort(v) == IF v = <<>> THEN <<>> ELSE heap_push(sort(Tail(v)), Head(v))

\* Vec::dedup: consecutive equal elements become one
RECURSIVE dedup(_)
dedup(v) ==
    IF Len(v) < 2 THEN v
    ELSE IF v[1] = v[2] THEN dedup(Tail(v))
    ELSE <<v[1]>> \o dedup(Tail(v))

GroupInit ==
    g \in {[state |-> "loop", unique |-> u, input |-> in, pos |-> 1,
            prev_key |-> None, tokens |-> <<>>, output |-> <<>>] :
              u \in BOOLEAN, in \in GroupInputs}

\* line 123-141: the body of the loop, for the next line of the input
GroupLine ==
    /\ g.state = "loop"
    /\ g.pos <= Len(g.input)
    /\ LET fields == take2(g.input[g.pos])
           new_key == fields[1] # g.prev_key
           flushed == IF g.unique THEN dedup(sort(g.tokens)) ELSE g.tokens
           emitted == IF new_key /\ g.prev_key # None
                      THEN Append(g.output,
                                  [key |-> g.prev_key, tokens |-> flushed])
                      ELSE g.output
           kept == IF new_key THEN <<>> ELSE g.tokens
       IN  IF Len(fields) < 2
           THEN g' = [g EXCEPT !.pos = g.pos + 1]
           ELSE g' = [g EXCEPT !.pos = g.pos + 1,
                               !.output = emitted,
                               !.prev_key = fields[1],
                               !.tokens = Append(kept, fields[2])]
    /\ UNCHANGED <<bsq_vars, sel, pushed>>

\* line 143: after the loop the last group is written as it stands;
\* prev_key.unwrap() panics when no line had two fields
GroupFinish ==
    /\ g.state = "loop"
    /\ g.pos > Len(g.input)
    /\ g' = IF g.prev_key = None THEN [g EXCEPT !.state = "panic"]
            ELSE [g EXCEPT !.state = "done",
                           !.output = Append(g.output,
                               [key |-> g.prev_key, tokens |-> g.tokens])]
    /\ UNCHANGED <<bsq_vars, sel, pushed>>

InitGroup == BsqIdle /\ TopKIdle /\ GroupInit

NextGroup ==
    \/ GroupLine
    \/ GroupFinish

SpecGroup == InitGroup /\ [][NextGroup]_vars

\* the second fields of the lines of the input whose first field is key
TokensOf(key) ==
    {g.input[i][2] : i \in {j \in DOMAIN g.input :
                              Len(g.input[j]) >= 2 /\ g.input[j][1] = key}}

\* C10: with -u every line written holds each distinct second field of its
\* key exactly once.
GroupUnique ==
    g.unique =>
        \A i \in DOMAIN g.output :
            \A t \in TokensOf(g.output[i].key) :
                Count(g.output[i].tokens, t) = 1

----------------------------------------------------------------------------
(* bsq: the probes of lower_bound and the keys both functions read *)

\* the offset lower_bound probes from the loop state (lb, ub), line 104
Mid == (lb + ub) \div 2

\* the record the probe resolves to, and the key span compared there
ProbeStart == probe_start(mmap, Mid)
ProbeEnd == probe_end(mmap, ProbeStart, ub)
ProbeKeyStart ==
    lb_key_start(mmap, ProbeStart, ProbeEnd, opt.delim, opt.key_idx)
ProbeKeyEnd == lb_key_end(mmap, ProbeKeyStart, ProbeEnd, opt.delim)

\* the offsets of the bytes b of db in [from, to)
Offsets(db, from, to, b) == {i \in from..(to - 1) : db[i + 1] = b}

\* the n-th smallest element of a set of offsets
RECURSIVE Nth(_, _)
Nth(S, n) == IF n = 1 THEN Min(S) ELSE Nth(S \ {Min(S)}, n - 1)

\* the key span of the record [rs, re) by the field extraction contract: it
\* begins at rs for index 0, else one byte after the key_idx-th delimiter of
\* the record, and is empty at re when the record has fewer; it ends at the
\* next delimiter of the record, or at re
FieldSpan(db, rs, re, delim, key_idx) ==
    LET ds == Offsets(db, rs, re, delim)
        ks == IF key_idx = 0 THEN rs
              ELSE IF Cardinality(ds) < key_idx THEN re
              ELSE Nth(ds, key_idx) + 1
        after == Offsets(db, ks, re, delim)
    IN  <<ks, IF after = {} THEN re ELSE Min(after)>>

\* the key span get_match_range tests at the record that starts at s
GmrKeySpan(s) ==
    LET ks == gmr_key_start(mmap, s, opt.delim, opt.key_idx)
    IN  IF ks = None THEN <<None, None>>
        ELSE <<ks, gmr_key_end(mmap, ks, opt.delim)>>

\* C11 for lower_bound alone: the key span compared at every probe is the
\* contract's span of the record probed
ProbeKeyIsField ==
    pc = "lower_bound" =>
        <<ProbeKeyStart, ProbeKeyEnd>> =
            FieldSpan(mmap, ProbeStart, ProbeEnd, opt.delim, opt.key_idx)

\* C11: the key span lower_bound compares at a probe and the key span
\* get_match_range tests at the record lower_bound returned are both the
\* span the field extraction contract gives for that record, so neither
\* reaches past the record's separator.
KeySpansAreFields ==
    /\ ProbeKeyIsField
    /\ (Returned /\ start \in RecordStarts(mmap)) =>
           GmrKeySpan(start) =
               FieldSpan(mmap, start, RecordEnd(mmap, start), opt.delim,
                         opt.key_idx)

\* the offset just after the last separator of mmap below `bound`, 0 if none
AfterLastSeparator(bound) ==
    LET seps == Offsets(mmap, 0, bound, NL)
    IN  IF seps = {} THEN 0 ELSE Max(seps) + 1

\* the resolved end is the nearest separator at or after the resolved start,
\* or the buffer's length, and no separator lies between the two
ProbeEndResolved ==
    LET seps == Offsets(mmap, ProbeStart, Len(mmap), NL)
    IN  /\ ProbeEnd = (IF seps = {} THEN Len(mmap) ELSE Min(seps))
        /\ Offsets(mmap, ProbeStart, ProbeEnd, NL) = {}

\* C12 as the spec states it: at every probe the resolved start is just
\* after the nearest separator at or before mid, and the end is resolved as
\* above.
ProbeResolvesAtOrBefore ==
    pc = "lower_bound" =>
        /\ 0 <= Mid /\ Mid <= Len(mmap)
        /\ ProbeStart =
             AfterLastSeparator(IF Mid < Len(mmap) THEN Mid + 1 ELSE Mid)
        /\ ProbeEndResolved

\* C12 as the code has it: at every probe the resolved start is just after
\* the nearest separator strictly before mid, so that a probe on a separator
\* byte resolves to the record that separator ends; the end is resolved as
\* above.
ProbeResolvesBefore ==
    pc = "lower_bound" =>
        /\ 0 <= Mid /\ Mid <= Len(mmap)
        /\ ProbeStart = AfterLastSeparator(Mid)
        /\ ProbeEndResolved

\* C12's case: a probe falls on a separator byte that ends a record which
\* does not start the buffer
ProbeOnSeparator ==
    /\ pc = "lower_bound"
    /\ Mid < Len(mmap)
    /\ mmap[Mid + 1] = NL
    /\ ProbeStart > 0
    /\ ProbeStart < Mid

\* C13: whenever lower_bound returns, the offset it returns is a record
\* boundary of the buffer: it lies within 0..Len(mmap), and it is 0 or the
\* byte before it is the record separator, so that get_match_range can
\* slice the buffer from it.
ReturnedIsBoundary ==
    Returned =>
        /\ 0 <= start
        /\ start <= Len(mmap)
        /\ (start = 0 \/ mmap[start] = NL)

\* the next iteration of the loop of lower_bound from the current loop state
ProbeStep == lower_bound_step(query, mmap, opt.delim, opt.key_idx, lb, ub)

\* lb and ub lie in the buffer, each at an end of it or on a separator
BoundsOnSeparators ==
    /\ 0 <= lb
    /\ ub <= Len(mmap)
    /\ (ub = Len(mmap) \/ mmap[ub + 1] = NL)
    /\ (lb = 0 \/ lb = Len(mmap) \/ mmap[lb + 1] = NL)

\* every record that ends at or before lb has a key less than the query
BelowLbLess ==
    \A s \in RecordStarts(mmap) :
        RecordEnd(mmap, s) <= lb => Cmp(Key(s), query) < 0

\* every record that starts after ub has a key not less than the query
AboveUbNotLess ==
    \A s \in RecordStarts(mmap) : s > ub => Cmp(query, Key(s)) <= 0

\* the iteration moves neither bound outwards, and leaves ub an offset
BoundsMonotonic ==
    ProbeStep.kind # "panic" =>
        /\ ProbeStep.lb >= lb
        /\ ProbeStep.ub <= ub
        /\ ProbeStep.ub >= 0

\* C14: the loop invariant of lower_bound on a sorted database. At the start
\* of every iteration lb and ub lie in the buffer at an end of it or on a
\* separator, every record that ends at or before lb has a key less than the
\* query, every record that starts after ub has a key not less than it, and
\* the iteration neither raises ub, lowers lb, nor takes ub below 0.
LoopInvariant ==
    pc = "lower_bound" =>
        /\ BoundsOnSeparators
        /\ BelowLbLess
        /\ AboveUbNotLess
        /\ BoundsMonotonic

====
